---- MODULE Spec2Model ----
(***************************************************************************)
(* A model of the scoped-state, widget, flag and plot-descriptor surface   *)
(* of dear-imgui and of the implot3d build script:                         *)
(*   - src/dear-imgui/src/widget/misc.rs  (DisabledToken, Ui, ButtonFlags) *)
(*   - src/extensions/dear-implot/src/plots/scatter.rs                     *)
(*                                         (ScatterPlot, SimpleScatterPlot)*)
(*   - src/extensions/dear-implot/src/plots/image.rs          (ImagePlot)  *)
(*   - src/extensions/dear-implot3d-sys/build.rs                   (main)  *)
(* The native engine is observed through the sequence of calls it receives *)
(* (variable calls) and, for the item-flag stack, through its depth.       *)
(*                                                                         *)
(* The specifications share the variables:                                 *)
(*   SpecUi       a caller recording a frame on a Ui                       *)
(*   SpecWidgets  a frame of widget calls inside disabled scopes           *)
(*   SpecFlags    a caller combining ButtonFlags                           *)
(*   SpecScatter  a caller building and running ScatterPlot descriptors    *)
(*   SpecSimple   a caller building and running SimpleScatterPlot          *)
(*   SpecImage    a caller building and running ImagePlot descriptors      *)
(*   SpecBuild    one run of the implot3d build script                     *)
(***************************************************************************)
EXTENDS Integers, Sequences, FiniteSets

VARIABLES
    calls,          \* the native calls issued so far, in order
    tokens,         \* ids of the live DisabledTokens, in creation order
    held,           \* once the scope is ending: the bindings that held the
                    \* live tokens, in declaration order, each one the ids it
                    \* held, in field order
    nextId,         \* number of DisabledTokens created so far
    pc,             \* "run" | "exit" | "unwind" | "done": the caller's frame
    itemFlagDepth,  \* native item-flag stack depth, relative to its start
    xin,            \* the caller's X slice (borrowed by descriptors)
    yin,            \* the caller's Y slice (borrowed by descriptors)
    desc,           \* the caller's ScatterPlot descriptor, or NoDesc
    simple,         \* the caller's SimpleScatterPlot descriptor, or NoDesc
    last,           \* the last plot operation run: its inputs and outcome
    prog,           \* the Ui operations the caller has run, in program order
    img,            \* the caller's image inputs (texture id, bounds), or NoDesc
    fl,             \* the native button-flag constants and two ButtonFlags values
    build           \* the implot3d build script: its inputs and its progress

vars == <<calls, tokens, held, nextId, pc, itemFlagDepth, xin, yin, desc, simple,
          last, prog, img, fl, build>>

\* What belongs to a frame recorded on a Ui.
uiVars == <<tokens, held, nextId, pc, itemFlagDepth, prog>>
\* What a frame recorded on a Ui leaves alone.
plotVars == <<xin, yin, desc, simple, last, img, fl, build>>
\* What building and running plot descriptors leaves alone, besides uiVars.
auxVars == <<img, fl, build>>

\* ------------------------------------------------------------------ bounds

\* Most DisabledTokens one frame creates.
MaxTokens == 2
\* Most push_button_repeat / pop_button_repeat calls one frame makes.
MaxFlagOps == 1
\* Longest data slice.
MaxLen == 3
\* Most native plot calls one behaviour issues.
MaxNative == 2
\* Most widget calls one frame makes.
MaxWidgets == 2
\* Most disabled scopes a frame of widgets opens.
MaxScopes == 1
\* The last place in a frame's program at which a widget call is made.
MaxWidgetPos == 3

\* ------------------------------------------------------------ small helpers

RECURSIVE SeqsUpTo(_, _)
\* All sequences over S of length 0..n.
SeqsUpTo(S, n) ==
    IF n = 0 THEN {<<>>}
    ELSE LET shorter == SeqsUpTo(S, n - 1)
         IN shorter \cup {Append(s, v) : s \in {t \in shorter : Len(t) = n - 1}, v \in S}

\* The sequence s without its i-th element.
RemoveAt(s, i) == SubSeq(s, 1, i - 1) \o SubSeq(s, i + 1, Len(s))

\* The positions of s whose element satisfies fn = f.
CallsTo(s, f) == {i \in DOMAIN s : s[i].fn = f}

Min(a, b) == IF a <= b THEN a ELSE b

\* The elements of sequence s.
Range(s) == {s[i] : i \in DOMAIN s}

NoDesc == [kind |-> "none"]
NoOp == [op |-> "none"]

\* ===================================================================== Ui
\* src/dear-imgui/src/widget/misc.rs

\* The native call sys::igBeginDisabled(d), made for token id.
igBeginDisabled(d, id) ==
    [fn |-> "igBeginDisabled", arg |-> d, tok |-> id, via |-> "begin"]

\* The native call sys::igEndDisabled(); tok and via record which token's
\* Drop issued it and why the token was dropped ("end": DisabledToken::end,
\* "exit": scope exit, "unwind": unwinding). arg is unused.
igEndDisabled(id, via) ==
    [fn |-> "igEndDisabled", arg |-> FALSE, tok |-> id, via |-> via]

\* The native call sys::igPushItemFlag(ImGuiItemFlags_ButtonRepeat, repeat).
igPushItemFlag(repeat) ==
    [fn |-> "igPushItemFlag", arg |-> repeat, tok |-> 0, via |-> "push"]

\* The native call sys::igPopItemFlag().
igPopItemFlag ==
    [fn |-> "igPopItemFlag", arg |-> FALSE, tok |-> 0, via |-> "pop"]

\* A Drop that stays silent while the thread is panicking.
DisabledToken_drop_quiet_on_unwind(tr, id, via) ==
    IF via = "unwind" THEN tr ELSE Append(tr, igEndDisabled(id, via))

\* impl Drop for DisabledToken: drop() calls igEndDisabled, whatever the
\* reason the token is dropped for.
DisabledToken_drop(tr, id, via) ==
    Append(tr, igEndDisabled(id, via))

\* An end() that calls EndDisabled itself and then lets the token drop.
DisabledToken_end_twice(tr, id) ==
    DisabledToken_drop(Append(tr, igEndDisabled(id, "end")), id, "end")

\* DisabledToken::end(self): the body is empty; self is dropped on return.
DisabledToken_end(tr, id) ==
    DisabledToken_drop(tr, id, "end")

\* Ui::begin_disabled: the native calls it makes for the token it returns.
Ui_begin_disabled(tr, id) ==
    Append(tr, igBeginDisabled(TRUE, id))

\* A conditional begin that skips the native call when nothing is disabled.
Ui_begin_disabled_with_cond_lazy(tr, disabled, id) ==
    IF disabled THEN Append(tr, igBeginDisabled(disabled, id)) ELSE tr

\* Ui::begin_disabled_with_cond: the native call is made for either value
\* of disabled, and a token is returned for either.
Ui_begin_disabled_with_cond(tr, disabled, id) ==
    Append(tr, igBeginDisabled(disabled, id))

\* The number of item-flag calls made so far.
FlagOps == Cardinality(CallsTo(calls, "igPushItemFlag") \cup CallsTo(calls, "igPopItemFlag"))

\* let t = ui.begin_disabled();
BeginDisabled ==
    /\ pc = "run"
    /\ nextId < MaxTokens
    /\ calls' = Ui_begin_disabled(calls, nextId + 1)
    /\ prog' = Append(prog, [op |-> "begin_disabled", arg |-> TRUE, tok |-> nextId + 1])
    /\ tokens' = Append(tokens, nextId + 1)
    /\ nextId' = nextId + 1
    /\ UNCHANGED <<held, pc, itemFlagDepth>>
    /\ UNCHANGED plotVars

\* let t = ui.begin_disabled_with_cond(d);
BeginDisabledWithCond ==
    /\ pc = "run"
    /\ nextId < MaxTokens
    /\ \E d \in BOOLEAN :
          /\ calls' = Ui_begin_disabled_with_cond(calls, d, nextId + 1)
          /\ prog' = Append(prog, [op |-> "begin_disabled", arg |-> d, tok |-> nextId + 1])
    /\ tokens' = Append(tokens, nextId + 1)
    /\ nextId' = nextId + 1
    /\ UNCHANGED <<held, pc, itemFlagDepth>>
    /\ UNCHANGED plotVars

\* t.end(); on any token the caller still holds.
End ==
    /\ pc = "run"
    /\ \E i \in DOMAIN tokens :
          /\ calls' = DisabledToken_end(calls, tokens[i])
          /\ prog' = Append(prog, [op |-> "release", arg |-> FALSE, tok |-> tokens[i]])
          /\ tokens' = RemoveAt(tokens, i)
    /\ UNCHANGED <<held, nextId, pc, itemFlagDepth>>
    /\ UNCHANGED plotVars

\* ui.push_button_repeat(repeat): no token is returned.
PushButtonRepeat ==
    /\ pc = "run"
    /\ FlagOps < MaxFlagOps
    /\ \E repeat \in BOOLEAN :
          /\ calls' = Append(calls, igPushItemFlag(repeat))
          /\ prog' = Append(prog, [op |-> "push_button_repeat", arg |-> repeat, tok |-> 0])
    /\ itemFlagDepth' = itemFlagDepth + 1
    /\ UNCHANGED <<tokens, held, nextId, pc>>
    /\ UNCHANGED plotVars

\* ui.pop_button_repeat(): callable whether or not a push went before.
PopButtonRepeat ==
    /\ pc = "run"
    /\ FlagOps < MaxFlagOps
    /\ calls' = Append(calls, igPopItemFlag)
    /\ prog' = Append(prog, [op |-> "pop_button_repeat", arg |-> FALSE, tok |-> 0])
    /\ itemFlagDepth' = itemFlagDepth - 1
    /\ UNCHANGED <<tokens, held, nextId, pc>>
    /\ UNCHANGED plotVars

RECURSIVE Perms(_)
\* All orders the elements of the set S can be put in.
Perms(S) ==
    IF S = {} THEN {<<>>}
    ELSE UNION { { <<x>> \o p : p \in Perms(S \ {x}) } : x \in S }

RECURSIVE Splits(_)
\* All ways to cut the sequence s into consecutive non-empty pieces.
Splits(s) ==
    IF s = <<>> THEN {<<>>}
    ELSE UNION { { <<SubSeq(s, 1, k)>> \o h : h \in Splits(SubSeq(s, k + 1, Len(s))) }
                 : k \in 1..Len(s) }

\* The ways the caller may hold the live tokens s when its scope ends: any
\* bindings in any declaration order, each either one token in a let of its
\* own or several tokens together in one tuple, Vec or struct, in any field
\* order. A token may have been moved into a binding declared after later
\* tokens were created, so neither order need follow the order of creation.
Holdings(s) == UNION { Splits(p) : p \in Perms(Range(s)) }

RECURSIVE DropOrder(_)
\* The order in which the drop glue of a scope runs Drop::drop on what the
\* bindings h hold: the bindings last-declared first, and within one binding
\* its fields or elements first to last.
DropOrder(h) ==
    IF h = <<>> THEN <<>>
    ELSE h[Len(h)] \o DropOrder(SubSeq(h, 1, Len(h) - 1))

\* The caller's scope ends normally: its live tokens will be dropped, in the
\* order the bindings that hold them give.
ScopeExit ==
    /\ pc = "run"
    /\ pc' = "exit"
    /\ held' \in Holdings(tokens)
    /\ UNCHANGED <<calls, tokens, nextId, itemFlagDepth, prog>>
    /\ UNCHANGED plotVars

\* The caller panics: unwinding will drop its live tokens, in the same order
\* as a normal scope exit.
Panic ==
    /\ pc = "run"
    /\ pc' = "unwind"
    /\ held' \in Holdings(tokens)
    /\ UNCHANGED <<calls, tokens, nextId, itemFlagDepth, prog>>
    /\ UNCHANGED plotVars

\* Scope exit and unwinding drop the live tokens one Drop::drop at a time:
\* the next one is the first in DropOrder(held) that has not been dropped.
DropStep ==
    /\ pc \in {"exit", "unwind"}
    /\ tokens # <<>>
    /\ LET order == DropOrder(held)
           id == order[Len(order) - Len(tokens) + 1]
           Stays(t) == t # id
       IN /\ calls' = DisabledToken_drop(calls, id, pc)
          /\ prog' = Append(prog, [op |-> "release", arg |-> FALSE, tok |-> id])
          /\ tokens' = SelectSeq(tokens, Stays)
    /\ UNCHANGED <<held, nextId, pc, itemFlagDepth>>
    /\ UNCHANGED plotVars

\* Every local is dropped: control leaves the layer.
Leave ==
    /\ pc \in {"exit", "unwind"}
    /\ tokens = <<>>
    /\ pc' = "done"
    /\ UNCHANGED <<calls, tokens, held, nextId, itemFlagDepth, prog>>
    /\ UNCHANGED plotVars

UiStart ==
    /\ tokens = <<>>
    /\ held = <<>>
    /\ nextId = 0
    /\ pc = "run"
    /\ itemFlagDepth = 0
    /\ prog = <<>>

\* Nothing outside the plot descriptors is in use.
AuxIdle ==
    /\ img = NoDesc
    /\ fl = NoDesc
    /\ build = NoDesc

PlotIdle ==
    /\ xin = <<>>
    /\ yin = <<>>
    /\ desc = NoDesc
    /\ simple = NoDesc
    /\ last = NoOp
    /\ AuxIdle

InitUi ==
    /\ calls = <<>>
    /\ UiStart
    /\ PlotIdle

NextUi ==
    \/ BeginDisabled
    \/ BeginDisabledWithCond
    \/ End
    \/ PushButtonRepeat
    \/ PopButtonRepeat
    \/ ScopeExit
    \/ Panic
    \/ DropStep
    \/ Leave

SpecUi == InitUi /\ [][NextUi]_vars

\* ============================================================ plot helpers
\* super::{safe_cstring, validate_data_lengths, PlotError} of
\* src/extensions/dear-implot/src/plots/scatter.rs line 3

\* Labels a caller passes, as bytes: "s" and "ok". None holds a NUL byte.
Labels == { <<115>>, <<111, 107>> }

\* Values of the data slices. They stand for f64 values; every sum and
\* product the model forms of them is an integer f64 arithmetic keeps exact.
DataVals == {1, 4}

\* ScatterPlot::with_flags, with_offset and with_stride take any i32; these
\* are the values the model draws from.
FlagVals == {0, 1}
OffsetVals == {0, 7}
StrideVals == {0, 8}

\* std::mem::size_of::<f64>() as i32.
SizeOfF64 == 8

\* safe_cstring: the label as a NUL-terminated C string.
safe_cstring(label) == Append(label, 0)

\* validate_data_lengths: paired slices must agree in length.
validate_data_lengths(a, b) ==
    IF Len(a) # Len(b) THEN "MismatchedLengths" ELSE "Ok"

\* The native call sys::ImPlot_PlotScatter_double(label, xs, ys, count): xs
\* and ys are what the two pointers address.
ImPlot_PlotScatter_double(label, xs, ys, count) ==
    [fn |-> "ImPlot_PlotScatter_double", label |-> label,
     xs |-> xs, ys |-> ys, count |-> count]

\* What an operation on a descriptor d did: its result and the number of
\* native calls it issued.
Outcome(op, d, res, before, after) ==
    [op |-> op, d |-> d, res |-> res, issued |-> Len(after) - Len(before)]

\* ============================================================ ScatterPlot
\* src/extensions/dear-implot/src/plots/scatter.rs

\* ScatterPlot::new
ScatterPlot_new(label, x_data, y_data) ==
    [kind |-> "scatter", label |-> label, x_data |-> x_data, y_data |-> y_data,
     flags |-> 0, offset |-> 0, stride |-> SizeOfF64]

\* ScatterPlot::with_flags
ScatterPlot_with_flags(p, flags) == [p EXCEPT !.flags = flags]

\* ScatterPlot::with_offset
ScatterPlot_with_offset(p, offset) == [p EXCEPT !.offset = offset]

\* ScatterPlot::with_stride
ScatterPlot_with_stride(p, stride) == [p EXCEPT !.stride = stride]

\* ScatterPlot::validate
ScatterPlot_validate(p) == validate_data_lengths(p.x_data, p.y_data)

\* A plot() that does not validate before calling the native plotter.
ScatterPlot_plot_unchecked(tr, p) ==
    Append(tr, ImPlot_PlotScatter_double(safe_cstring(p.label),
                                         p.x_data, p.y_data, Len(p.x_data)))

\* A plot() that starts at the offset set on the descriptor.
ScatterPlot_plot_from_offset(tr, p) ==
    IF ScatterPlot_validate(p) # "Ok"
    THEN tr
    ELSE Append(tr, ImPlot_PlotScatter_double(safe_cstring(p.label),
                                              p.x_data, p.y_data,
                                              Len(p.x_data) - p.offset))

\* impl Plot for ScatterPlot: plot(). The count is x_data.len(); flags,
\* offset and stride are not passed on.
ScatterPlot_plot(tr, p) ==
    IF ScatterPlot_validate(p) # "Ok"
    THEN tr
    ELSE Append(tr, ImPlot_PlotScatter_double(safe_cstring(p.label),
                                              p.x_data, p.y_data, Len(p.x_data)))

\* A scatter_plot that drops the result of validate().
PlotUi_scatter_plot_unchecked(tr, label, x_data, y_data) ==
    [res |-> "Ok", calls |-> ScatterPlot_plot(tr, ScatterPlot_new(label, x_data, y_data))]

\* PlotUi::scatter_plot: new, validate()?, plot().
PlotUi_scatter_plot(tr, label, x_data, y_data) ==
    LET plot == ScatterPlot_new(label, x_data, y_data)
        v == ScatterPlot_validate(plot)
    IN IF v # "Ok"
       THEN [res |-> v, calls |-> tr]
       ELSE [res |-> "Ok", calls |-> ScatterPlot_plot(tr, plot)]

\* let p = ScatterPlot::new(label, &x, &y);
New ==
    /\ \E label \in Labels : desc' = ScatterPlot_new(label, xin, yin)
    /\ last' = Outcome("new", desc', "unit", calls, calls)
    /\ UNCHANGED <<calls, xin, yin, simple>>
    /\ UNCHANGED uiVars
    /\ UNCHANGED auxVars

\* let p = p.with_flags(f);
WithFlags ==
    /\ desc # NoDesc
    /\ \E f \in FlagVals : desc' = ScatterPlot_with_flags(desc, f)
    /\ last' = Outcome("with_flags", desc', "unit", calls, calls)
    /\ UNCHANGED <<calls, xin, yin, simple>>
    /\ UNCHANGED uiVars
    /\ UNCHANGED auxVars

\* let p = p.with_offset(o);
WithOffset ==
    /\ desc # NoDesc
    /\ \E o \in OffsetVals : desc' = ScatterPlot_with_offset(desc, o)
    /\ last' = Outcome("with_offset", desc', "unit", calls, calls)
    /\ UNCHANGED <<calls, xin, yin, simple>>
    /\ UNCHANGED uiVars
    /\ UNCHANGED auxVars

\* let p = p.with_stride(s);
WithStride ==
    /\ desc # NoDesc
    /\ \E st \in StrideVals : desc' = ScatterPlot_with_stride(desc, st)
    /\ last' = Outcome("with_stride", desc', "unit", calls, calls)
    /\ UNCHANGED <<calls, xin, yin, simple>>
    /\ UNCHANGED uiVars
    /\ UNCHANGED auxVars

\* p.validate()
Validate ==
    /\ desc # NoDesc
    /\ last' = Outcome("validate", desc, ScatterPlot_validate(desc), calls, calls)
    /\ UNCHANGED <<calls, xin, yin, desc, simple>>
    /\ UNCHANGED uiVars
    /\ UNCHANGED auxVars

\* p.plot()
Plot ==
    /\ desc # NoDesc
    /\ Len(calls) < MaxNative
    /\ calls' = ScatterPlot_plot(calls, desc)
    /\ last' = Outcome("plot", desc, "unit", calls, calls')
    /\ UNCHANGED <<xin, yin, desc, simple>>
    /\ UNCHANGED uiVars
    /\ UNCHANGED auxVars

\* plot_ui.scatter_plot(label, &x, &y)
ScatterPlotFacade ==
    /\ Len(calls) < MaxNative
    /\ \E label \in Labels :
          LET r == PlotUi_scatter_plot(calls, label, xin, yin)
          IN /\ calls' = r.calls
             /\ last' = Outcome("scatter_plot", ScatterPlot_new(label, xin, yin),
                                r.res, calls, r.calls)
    /\ UNCHANGED <<xin, yin, desc, simple>>
    /\ UNCHANGED uiVars
    /\ UNCHANGED auxVars

InitScatter ==
    /\ calls = <<>>
    /\ UiStart
    /\ xin \in SeqsUpTo(DataVals, MaxLen)
    /\ yin \in SeqsUpTo(DataVals, MaxLen)
    /\ desc = NoDesc
    /\ simple = NoDesc
    /\ last = NoOp
    /\ AuxIdle

NextScatter ==
    \/ New
    \/ WithFlags
    \/ WithOffset
    \/ WithStride
    \/ Validate
    \/ Plot
    \/ ScatterPlotFacade

SpecScatter == InitScatter /\ [][NextScatter]_vars

\* ------------------------------------------------------- claims on the Ui

Begins == CallsTo(calls, "igBeginDisabled")
Ends == CallsTo(calls, "igEndDisabled")

\* The EndDisabled calls issued for token id.
EndsOf(id) == {i \in Ends : calls[i].tok = id}

\* C1: once every token returned by begin_disabled / begin_disabled_with_cond
\* (for either value of the condition) has been released, the native engine
\* has received as many EndDisabled calls as BeginDisabled calls, also when
\* the frame ended by unwinding.
C1_BeginEndBalanced ==
    tokens = <<>> => Cardinality(Ends) = Cardinality(Begins)

\* C1 witness: a frame that opened at least two scopes, one of them with
\* begin_disabled_with_cond(false), panicked and was unwound to the end.
C1_Witness ==
    /\ pc = "done"
    /\ Cardinality(Begins) >= 2
    /\ \E i \in Begins : calls[i].arg = FALSE
    /\ \E i \in Ends : calls[i].via = "unwind"

\* C2 as claimed: whenever two tokens are open together, the EndDisabled of the
\* later-created one is issued before the EndDisabled of the earlier-created
\* one, however the tokens are released.
C2_StrictLIFO ==
    \A j \in Ends : \A i \in Begins :
        (i < j /\ calls[i].tok > calls[j].tok) =>
            \E k \in Ends : k < j /\ calls[k].tok = calls[i].tok

\* The binding of held that holds token t; 0 when the token was released
\* before the scope ended.
BindingOf(t) ==
    IF \E b \in DOMAIN held : t \in Range(held[b])
    THEN CHOOSE b \in DOMAIN held : t \in Range(held[b])
    ELSE 0

\* The tokens that, when the scope ended, were held in a let binding of
\* their own that was declared before the binding of every later-created
\* live token: the tokens bound as they were created and never moved behind
\* a later one.
LetBound ==
    {t \in 1..nextId :
        /\ BindingOf(t) # 0
        /\ held[BindingOf(t)] = <<t>>
        /\ \A u \in 1..nextId :
              (u > t /\ BindingOf(u) # 0) => BindingOf(u) > BindingOf(t)}

\* C2 as amended: an EndDisabled issued by scope exit or by unwinding for a
\* token held in a let binding of its own, declared before the bindings of
\* all later-created live tokens, is that of the latest-created token still
\* open; a frame that never called end() explicitly and held every token
\* that way has, when control leaves the layer, issued one EndDisabled per
\* token in the reverse of creation order; and tokens held together in one
\* tuple, Vec or struct are released in field order, first to last.
C2_ScopedReleaseLIFO ==
    /\ \A j \in Ends :
          (calls[j].via \in {"exit", "unwind"} /\ calls[j].tok \in LetBound) =>
              \A i \in Begins :
                  (i < j /\ calls[i].tok > calls[j].tok) =>
                      \E k \in Ends : k < j /\ calls[k].tok = calls[i].tok
    /\ (pc = "done" /\ (\A j \in Ends : calls[j].via # "end")
          /\ \A t \in 1..nextId : t \in LetBound) =>
          \A i1 \in Begins : \A i2 \in Begins :
              i1 < i2 =>
                  \E e1 \in Ends : \E e2 \in Ends :
                      /\ calls[e1].tok = calls[i1].tok
                      /\ calls[e2].tok = calls[i2].tok
                      /\ e2 < e1
    /\ \A b \in DOMAIN held : \A p \in DOMAIN held[b] : \A q \in DOMAIN held[b] :
          \A e2 \in EndsOf(held[b][q]) :
              p < q => \E e1 \in EndsOf(held[b][p]) : e1 < e2

\* C2 witness: let a = begin_disabled(); let b = begin_disabled_with_cond(false);
\* panic: two EndDisabled calls, innermost first, before unwinding leaves the
\* layer.
C2_Witness ==
    /\ pc = "done"
    /\ held = << <<1>>, <<2>> >>
    /\ calls = << igBeginDisabled(TRUE, 1), igBeginDisabled(FALSE, 2),
                  igEndDisabled(2, "unwind"), igEndDisabled(1, "unwind") >>

\* C3: every DisabledToken is released exactly once: a token that is no longer
\* live, whether consumed by end() or dropped, has caused exactly one
\* EndDisabled call, and a live token none.
C3_ReleasedExactlyOnce ==
    \A id \in 1..nextId :
        Cardinality(EndsOf(id)) = IF id \in Range(tokens) THEN 0 ELSE 1

\* C3 witness: a token was consumed by an explicit end() while another token
\* was still live.
C3_Witness ==
    /\ \E i \in Ends : calls[i].via = "end"
    /\ tokens # <<>>

\* C4 as claimed: the item-flag stack never goes below its starting depth and
\* is back at it when the frame is over.
C4_ItemFlagBalanced ==
    /\ itemFlagDepth >= 0
    /\ pc = "done" => itemFlagDepth = 0

\* ====================================================== SimpleScatterPlot
\* src/extensions/dear-implot/src/plots/scatter.rs

\* Values of the Y slice of a simple scatter plot.
YVals == {10, 20, 30}

\* The values with_x_start and with_x_scale are given.
StartVals == {0, 5}
ScaleVals == {1, 2}

\* SimpleScatterPlot::new: x_scale 1.0, x_start 0.0.
SimpleScatterPlot_new(label, values) ==
    [kind |-> "simple", label |-> label, values |-> values,
     x_scale |-> 1, x_start |-> 0]

\* SimpleScatterPlot::with_x_scale
SimpleScatterPlot_with_x_scale(p, scale) == [p EXCEPT !.x_scale = scale]

\* SimpleScatterPlot::with_x_start
SimpleScatterPlot_with_x_start(p, start) == [p EXCEPT !.x_start = start]

\* The temporary X data of plot(): (0..values.len()).map(|i| x_start +
\* i as f64 * x_scale). Sequences are 1-based: element k is index i = k - 1.
SimpleXData(p) ==
    [k \in 1..Len(p.values) |-> p.x_start + (k - 1) * p.x_scale]

\* A plot() that takes the scale for the start and the start for the scale.
SimpleScatterPlot_plot_swapped(tr, p) ==
    IF Len(p.values) = 0
    THEN tr
    ELSE Append(tr, ImPlot_PlotScatter_double(
                        safe_cstring(p.label),
                        [k \in 1..Len(p.values) |-> p.x_scale + (k - 1) * p.x_start],
                        p.values, Len(p.values)))

\* impl Plot for SimpleScatterPlot: plot().
SimpleScatterPlot_plot(tr, p) ==
    IF Len(p.values) = 0
    THEN tr
    ELSE Append(tr, ImPlot_PlotScatter_double(safe_cstring(p.label),
                                              SimpleXData(p), p.values,
                                              Len(p.values)))

\* A simple_scatter_plot without the check for empty values.
PlotUi_simple_scatter_plot_unchecked(tr, label, values) ==
    [res |-> "Ok",
     calls |-> SimpleScatterPlot_plot(tr, SimpleScatterPlot_new(label, values))]

\* PlotUi::simple_scatter_plot
PlotUi_simple_scatter_plot(tr, label, values) ==
    IF Len(values) = 0
    THEN [res |-> "EmptyData", calls |-> tr]
    ELSE [res |-> "Ok",
          calls |-> SimpleScatterPlot_plot(tr, SimpleScatterPlot_new(label, values))]

\* let p = SimpleScatterPlot::new(label, &values);
SimpleNew ==
    /\ \E label \in Labels : simple' = SimpleScatterPlot_new(label, yin)
    /\ last' = Outcome("new", simple', "unit", calls, calls)
    /\ UNCHANGED <<calls, xin, yin, desc>>
    /\ UNCHANGED uiVars
    /\ UNCHANGED auxVars

\* let p = p.with_x_scale(s);
WithXScale ==
    /\ simple # NoDesc
    /\ \E sc \in ScaleVals : simple' = SimpleScatterPlot_with_x_scale(simple, sc)
    /\ last' = Outcome("with_x_scale", simple', "unit", calls, calls)
    /\ UNCHANGED <<calls, xin, yin, desc>>
    /\ UNCHANGED uiVars
    /\ UNCHANGED auxVars

\* let p = p.with_x_start(s);
WithXStart ==
    /\ simple # NoDesc
    /\ \E st \in StartVals : simple' = SimpleScatterPlot_with_x_start(simple, st)
    /\ last' = Outcome("with_x_start", simple', "unit", calls, calls)
    /\ UNCHANGED <<calls, xin, yin, desc>>
    /\ UNCHANGED uiVars
    /\ UNCHANGED auxVars

\* p.plot()
SimplePlot ==
    /\ simple # NoDesc
    /\ Len(calls) < MaxNative
    /\ calls' = SimpleScatterPlot_plot(calls, simple)
    /\ last' = Outcome("plot", simple, "unit", calls, calls')
    /\ UNCHANGED <<xin, yin, desc, simple>>
    /\ UNCHANGED uiVars
    /\ UNCHANGED auxVars

\* plot_ui.simple_scatter_plot(label, &values)
SimpleScatterPlotFacade ==
    /\ Len(calls) < MaxNative
    /\ \E label \in Labels :
          LET r == PlotUi_simple_scatter_plot(calls, label, yin)
          IN /\ calls' = r.calls
             /\ last' = Outcome("simple_scatter_plot",
                                SimpleScatterPlot_new(label, yin),
                                r.res, calls, r.calls)
    /\ UNCHANGED <<xin, yin, desc, simple>>
    /\ UNCHANGED uiVars
    /\ UNCHANGED auxVars

InitSimple ==
    /\ calls = <<>>
    /\ UiStart
    /\ xin = <<>>
    /\ yin \in SeqsUpTo(YVals, MaxLen)
    /\ desc = NoDesc
    /\ simple = NoDesc
    /\ last = NoOp
    /\ AuxIdle

NextSimple ==
    \/ SimpleNew
    \/ WithXScale
    \/ WithXStart
    \/ SimplePlot
    \/ SimpleScatterPlotFacade

SpecSimple == InitSimple /\ [][NextSimple]_vars

\* ------------------------------------------------ claims on ScatterPlot

\* C5: for X and Y of different lengths ScatterPlot::validate returns an
\* error, and the facade scatter_plot returns MismatchedLengths and issues no
\* native plot call; no operation on such data ever reaches the plotter.
C5_MismatchedLengthsRejected ==
    Len(xin) # Len(yin) =>
        /\ calls = <<>>
        /\ last.op = "validate" => last.res # "Ok"
        /\ last.op = "scatter_plot" =>
              last.res = "MismatchedLengths" /\ last.issued = 0

\* C5 witness: scatter_plot was called with three X values and two Y values.
C5_Witness ==
    /\ last.op = "scatter_plot"
    /\ Len(last.d.x_data) = 3
    /\ Len(last.d.y_data) = 2
    /\ last.res = "MismatchedLengths"

\* C6: every native scatter call comes from a descriptor whose validate()
\* succeeds and carries count = min(|X|, |Y|), so the count exceeds neither
\* slice; plot() on a descriptor whose validate() fails returns unit and
\* issues no native call.
C6_NativeCallOnlyWhenValid ==
    /\ \A i \in DOMAIN calls :
          /\ validate_data_lengths(calls[i].xs, calls[i].ys) = "Ok"
          /\ calls[i].count = Min(Len(calls[i].xs), Len(calls[i].ys))
    /\ (last.op = "plot" /\ ScatterPlot_validate(last.d) # "Ok") =>
          last.res = "unit" /\ last.issued = 0
    /\ (last.op = "plot" /\ last.issued > 0) =>
          ScatterPlot_validate(last.d) = "Ok"

\* C6 witness: plot() on a valid descriptor of three points issued one native
\* call with count 3.
C6_Witness ==
    /\ last.op = "plot"
    /\ last.issued = 1
    /\ calls[Len(calls)].count = 3
    /\ Len(last.d.y_data) = 3

\* C7 as claimed: a scatter descriptor with |X| = |Y| = 0 validates, the facade
\* returns Ok, and nothing is drawn: no native plot call is issued for it.
C7_EmptyScatterDrawsNothing ==
    (Len(xin) = 0 /\ Len(yin) = 0) =>
        /\ last.op = "validate" => last.res = "Ok"
        /\ last.op = "scatter_plot" => last.res = "Ok"
        /\ calls = <<>>

\* C10 as claimed: a ScatterPlot built by any chain of new, with_flags,
\* with_offset and with_stride whose validate() succeeds has slices of one
\* length, a positive stride and an offset within the data. It is stated here
\* for descriptors over non-empty data, where the success of validate() is
\* the one the crate's own test test_scatter_plot_creation asserts.
C10_ValidatedDescriptorWellFormed ==
    (desc # NoDesc /\ Len(desc.x_data) > 0 /\ ScatterPlot_validate(desc) = "Ok") =>
        /\ Len(desc.x_data) = Len(desc.y_data)
        /\ desc.stride > 0
        /\ desc.offset >= 0
        /\ desc.offset <= Len(desc.x_data)

\* C14: the native call issued by ScatterPlot::plot does not depend on the
\* values set by with_flags, with_offset or with_stride: descriptors with the
\* same label, X and Y but other flags, offset or stride have the same
\* validate() result and issue the same native scatter call (label, X, Y,
\* count = |X|).
C14_SettersDoNotReachNativeCall ==
    /\ desc # NoDesc =>
          \A f \in FlagVals : \A o \in OffsetVals : \A s \in StrideVals :
             LET q == ScatterPlot_with_stride(
                          ScatterPlot_with_offset(
                              ScatterPlot_with_flags(desc, f), o), s)
             IN /\ ScatterPlot_validate(q) = ScatterPlot_validate(desc)
                /\ ScatterPlot_plot(calls, q) = ScatterPlot_plot(calls, desc)
    /\ (last.op = "plot" /\ last.issued = 1) =>
          calls[Len(calls)] =
              [fn |-> "ImPlot_PlotScatter_double",
               label |-> safe_cstring(last.d.label),
               xs |-> last.d.x_data, ys |-> last.d.y_data,
               count |-> Len(last.d.x_data)]

\* C14 witness: a descriptor with flags, offset and stride all changed from
\* their defaults was plotted and issued its native call.
C14_Witness ==
    /\ last.op = "plot"
    /\ last.issued = 1
    /\ last.d.flags = 1
    /\ last.d.offset = 7
    /\ last.d.stride = 0
    /\ Len(last.d.x_data) > 0
    /\ calls[Len(calls)].count = Len(last.d.x_data)

\* ------------------------------------------- claims on SimpleScatterPlot

\* C8: for an empty Y the facade simple_scatter_plot returns EmptyData and
\* issues no native call, and SimpleScatterPlot::plot returns without issuing
\* one; for every non-empty Y the facade returns Ok and issues exactly one
\* native scatter call.
C8_SimpleEmptyData ==
    /\ Len(yin) = 0 =>
          /\ calls = <<>>
          /\ last.op = "simple_scatter_plot" =>
                last.res = "EmptyData" /\ last.issued = 0
          /\ last.op = "plot" => last.res = "unit" /\ last.issued = 0
    /\ (Len(yin) > 0 /\ last.op = "simple_scatter_plot") =>
          /\ last.res = "Ok"
          /\ last.issued = 1
          /\ calls[Len(calls)].fn = "ImPlot_PlotScatter_double"

\* C8 witness: the facade was called on an empty Y and returned EmptyData.
C8_Witness ==
    /\ last.op = "simple_scatter_plot"
    /\ last.d.values = <<>>
    /\ last.res = "EmptyData"

\* C9: for a non-empty Y and whatever x_start and x_scale were set,
\* SimpleScatterPlot::plot hands the native scatter call an X sequence whose
\* i-th element (from 0) is x_start + i * x_scale, the Y values unchanged, and
\* count = |Y|.
C9_SimpleXSynthesis ==
    (last.op = "plot" /\ Len(last.d.values) > 0) =>
        /\ last.issued = 1
        /\ LET c == calls[Len(calls)]
           IN /\ c.count = Len(last.d.values)
              /\ c.ys = last.d.values
              /\ Len(c.xs) = Len(last.d.values)
              /\ \A i \in 0..(Len(last.d.values) - 1) :
                    c.xs[i + 1] = last.d.x_start + i * last.d.x_scale

\* C9 witness: Y = [10, 20, 30], x_start 5, x_scale 2: the native call gets
\* X = [5, 7, 9], Y = [10, 20, 30], count 3.
C9_Witness ==
    /\ last.op = "plot"
    /\ last.d.values = <<10, 20, 30>>
    /\ last.d.x_start = 5
    /\ last.d.x_scale = 2
    /\ calls[Len(calls)].xs = <<5, 7, 9>>
    /\ calls[Len(calls)].ys = <<10, 20, 30>>
    /\ calls[Len(calls)].count = 3

\* ============================================================== ImagePlot
\* src/extensions/dear-implot/src/plots/image.rs

\* The label a caller gives an image plot, as bytes: "img".
ImageLabels == { <<105, 109, 103>> }

\* Texture ids (sys::ImTextureID) a renderer hands out.
TexIds == {0, 7}

\* A sys::ImPlotPoint.
ImPlotPoint(x, y) == [x |-> x, y |-> y]

\* The bounds a caller passes: a unit square and a degenerate one (min = max).
BoundsVals ==
    { <<ImPlotPoint(0, 0), ImPlotPoint(1, 1)>>,
      <<ImPlotPoint(2, 2), ImPlotPoint(2, 2)>> }

\* crate::ImageFlags::NONE: the empty flag set, whose bits are zero.
ImageFlags_NONE == [bits |-> 0]

\* ImageFlags values given to with_flags.
ImageFlagVals == { ImageFlags_NONE, [bits |-> 1] }

\* ImageFlags::bits
ImageFlags_bits(f) == f.bits

\* The (uv0, uv1) pairs given to with_uv, and the tints given to with_tint.
UvVals == { << <<0, 0>>, <<1, 1>> >>, << <<1, 1>>, <<0, 0>> >> }
TintVals == { <<1, 1, 1, 1>>, <<1, 0, 0, 1>> }

\* ImagePlot::new
ImagePlot_new(label, tex_id, bounds_min, bounds_max) ==
    [kind |-> "image", label |-> label, tex_id |-> tex_id,
     bounds_min |-> bounds_min, bounds_max |-> bounds_max,
     uv0 |-> <<0, 0>>, uv1 |-> <<1, 1>>, tint |-> <<1, 1, 1, 1>>,
     flags |-> ImageFlags_NONE]

\* ImagePlot::with_uv
ImagePlot_with_uv(p, uv0, uv1) == [p EXCEPT !.uv0 = uv0, !.uv1 = uv1]

\* ImagePlot::with_tint
ImagePlot_with_tint(p, tint) == [p EXCEPT !.tint = tint]

\* ImagePlot::with_flags
ImagePlot_with_flags(p, flags) == [p EXCEPT !.flags = flags]

\* ImagePlot::validate: Ok(()) for every descriptor.
ImagePlot_validate(p) == "Ok"

\* The native call sys::ImPlot_PlotImage.
ImPlot_PlotImage(label, tex_ref, bounds_min, bounds_max, uv0, uv1, tint, flags) ==
    [fn |-> "ImPlot_PlotImage", label |-> label, tex_ref |-> tex_ref,
     bounds_min |-> bounds_min, bounds_max |-> bounds_max,
     uv0 |-> uv0, uv1 |-> uv1, tint |-> tint, flags |-> flags]

\* A plot() that hands the native call uv1 for uv0 and uv0 for uv1.
ImagePlot_plot_uv_swapped(tr, p) ==
    Append(tr, ImPlot_PlotImage(
        safe_cstring(p.label),
        [_TexData |-> "null", _TexID |-> p.tex_id],
        p.bounds_min, p.bounds_max,
        [x |-> p.uv1[1], y |-> p.uv1[2]],
        [x |-> p.uv0[1], y |-> p.uv0[2]],
        [x |-> p.tint[1], y |-> p.tint[2], z |-> p.tint[3], w |-> p.tint[4]],
        ImageFlags_bits(p.flags)))

\* impl Plot for ImagePlot: plot(). Arrays are 1-based here: uv0[0] is uv0[1].
ImagePlot_plot(tr, p) ==
    IF ImagePlot_validate(p) # "Ok"
    THEN tr
    ELSE Append(tr, ImPlot_PlotImage(
             safe_cstring(p.label),
             [_TexData |-> "null", _TexID |-> p.tex_id],
             p.bounds_min, p.bounds_max,
             [x |-> p.uv0[1], y |-> p.uv0[2]],
             [x |-> p.uv1[1], y |-> p.uv1[2]],
             [x |-> p.tint[1], y |-> p.tint[2], z |-> p.tint[3], w |-> p.tint[4]],
             ImageFlags_bits(p.flags)))

\* PlotUi::plot_image: new, validate()?, plot().
PlotUi_plot_image(tr, label, tex_id, bounds_min, bounds_max) ==
    LET plot == ImagePlot_new(label, tex_id, bounds_min, bounds_max)
        v == ImagePlot_validate(plot)
    IN IF v # "Ok"
       THEN [res |-> v, calls |-> tr]
       ELSE [res |-> "Ok", calls |-> ImagePlot_plot(tr, plot)]

\* let p = ImagePlot::new(label, tex, min, max);
ImgNew ==
    /\ \E label \in ImageLabels :
          desc' = ImagePlot_new(label, img.tex, img.bounds_min, img.bounds_max)
    /\ last' = Outcome("new", desc', "unit", calls, calls)
    /\ UNCHANGED <<calls, xin, yin, simple>>
    /\ UNCHANGED uiVars
    /\ UNCHANGED auxVars

\* let p = p.with_uv(uv0, uv1);
ImgWithUv ==
    /\ desc # NoDesc
    /\ \E uv \in UvVals : desc' = ImagePlot_with_uv(desc, uv[1], uv[2])
    /\ last' = Outcome("with_uv", desc', "unit", calls, calls)
    /\ UNCHANGED <<calls, xin, yin, simple>>
    /\ UNCHANGED uiVars
    /\ UNCHANGED auxVars

\* let p = p.with_tint(t);
ImgWithTint ==
    /\ desc # NoDesc
    /\ \E t \in TintVals : desc' = ImagePlot_with_tint(desc, t)
    /\ last' = Outcome("with_tint", desc', "unit", calls, calls)
    /\ UNCHANGED <<calls, xin, yin, simple>>
    /\ UNCHANGED uiVars
    /\ UNCHANGED auxVars

\* let p = p.with_flags(f);
ImgWithFlags ==
    /\ desc # NoDesc
    /\ \E f \in ImageFlagVals : desc' = ImagePlot_with_flags(desc, f)
    /\ last' = Outcome("with_flags", desc', "unit", calls, calls)
    /\ UNCHANGED <<calls, xin, yin, simple>>
    /\ UNCHANGED uiVars
    /\ UNCHANGED auxVars

\* p.validate()
ImgValidate ==
    /\ desc # NoDesc
    /\ last' = Outcome("validate", desc, ImagePlot_validate(desc), calls, calls)
    /\ UNCHANGED <<calls, xin, yin, desc, simple>>
    /\ UNCHANGED uiVars
    /\ UNCHANGED auxVars

\* p.plot()
ImgPlot ==
    /\ desc # NoDesc
    /\ Len(calls) < MaxNative
    /\ calls' = ImagePlot_plot(calls, desc)
    /\ last' = Outcome("plot", desc, "unit", calls, calls')
    /\ UNCHANGED <<xin, yin, desc, simple>>
    /\ UNCHANGED uiVars
    /\ UNCHANGED auxVars

\* plot_ui.plot_image(label, tex, min, max)
PlotImageFacade ==
    /\ Len(calls) < MaxNative
    /\ \E label \in ImageLabels :
          LET r == PlotUi_plot_image(calls, label, img.tex,
                                     img.bounds_min, img.bounds_max)
          IN /\ calls' = r.calls
             /\ last' = Outcome("plot_image",
                                ImagePlot_new(label, img.tex,
                                              img.bounds_min, img.bounds_max),
                                r.res, calls, r.calls)
    /\ UNCHANGED <<xin, yin, desc, simple>>
    /\ UNCHANGED uiVars
    /\ UNCHANGED auxVars

\* dear_imgui_rs::TextureId: a transparent wrapper of the raw texture id.
TextureId_new(raw) == [id |-> raw]

\* TextureId::id
TextureId_id(texture) == texture.id

\* std::mem::transmute from the value of TextureId::id to sys::ImTextureID:
\* both are integers of one width, and the bits are kept.
transmute_ImTextureID(raw) == raw

\* PlotUi::plot_image_with_imgui_texture: plot_image on the transmuted id.
PlotUi_plot_image_with_imgui_texture(tr, label, texture, bounds_min, bounds_max) ==
    PlotUi_plot_image(tr, label, transmute_ImTextureID(TextureId_id(texture)),
                      bounds_min, bounds_max)

\* plot_ui.plot_image_with_imgui_texture(label, TextureId::new(tex), min, max)
PlotImageWithImguiTexture ==
    /\ Len(calls) < MaxNative
    /\ \E label \in ImageLabels :
          LET r == PlotUi_plot_image_with_imgui_texture(
                       calls, label, TextureId_new(img.tex),
                       img.bounds_min, img.bounds_max)
          IN /\ calls' = r.calls
             /\ last' = Outcome("plot_image_with_imgui_texture",
                                ImagePlot_new(label, img.tex,
                                              img.bounds_min, img.bounds_max),
                                r.res, calls, r.calls)
    /\ UNCHANGED <<xin, yin, desc, simple>>
    /\ UNCHANGED uiVars
    /\ UNCHANGED auxVars

InitImage ==
    /\ calls = <<>>
    /\ UiStart
    /\ xin = <<>>
    /\ yin = <<>>
    /\ desc = NoDesc
    /\ simple = NoDesc
    /\ last = NoOp
    /\ \E t \in TexIds : \E b \in BoundsVals :
          img = [tex |-> t, bounds_min |-> b[1], bounds_max |-> b[2]]
    /\ fl = NoDesc
    /\ build = NoDesc

NextImage ==
    \/ ImgNew
    \/ ImgWithUv
    \/ ImgWithTint
    \/ ImgWithFlags
    \/ ImgValidate
    \/ ImgPlot
    \/ PlotImageFacade
    \/ PlotImageWithImguiTexture

SpecImage == InitImage /\ [][NextImage]_vars

\* --------------------------------------------------- claims on ImagePlot

\* The descriptor of the last operation is as ImagePlot::new left it.
FreshImage(d) ==
    d = ImagePlot_new(d.label, img.tex, img.bounds_min, img.bounds_max)

\* C11: an ImagePlot built by ImagePlot::new(label, T, min, max) with no
\* further setter, when plotted, hands the native image call UV0 = (0,0),
\* UV1 = (1,1), tint = (1,1,1,1), no flags and a texture reference whose
\* auxiliary pointer is null and whose handle is T; validate() always
\* succeeds, so the call is issued for any bounds, min = max included.
C11_ImageDefaults ==
    /\ last.op = "validate" => last.res = "Ok"
    /\ last.op \in {"plot", "plot_image"} =>
          /\ last.issued = 1
          /\ calls[Len(calls)].fn = "ImPlot_PlotImage"
          /\ calls[Len(calls)].bounds_min = last.d.bounds_min
          /\ calls[Len(calls)].bounds_max = last.d.bounds_max
    /\ last.op = "plot_image" => last.res = "Ok" /\ FreshImage(last.d)
    /\ (last.op \in {"plot", "plot_image"} /\ FreshImage(last.d)) =>
          LET c == calls[Len(calls)]
          IN /\ c.uv0 = [x |-> 0, y |-> 0]
             /\ c.uv1 = [x |-> 1, y |-> 1]
             /\ c.tint = [x |-> 1, y |-> 1, z |-> 1, w |-> 1]
             /\ c.flags = 0
             /\ c.tex_ref = [_TexData |-> "null", _TexID |-> img.tex]

\* C11 witness: a descriptor fresh from new, with texture 7 and min = max, was
\* plotted and the native call was issued.
C11_Witness ==
    /\ last.op = "plot"
    /\ FreshImage(last.d)
    /\ img.tex = 7
    /\ img.bounds_min = img.bounds_max
    /\ last.issued = 1

\* ================================================================ widgets
\* src/dear-imgui/src/widget/misc.rs

\* Ui::scratch_txt: the text as bytes in the Ui's scratch buffer, followed by
\* one terminator byte; what the returned pointer addresses. The labels of the
\* model hold no NUL byte.
scratch_txt(text) == Append(text, 0)

\* The native call sys::igSmallButton_Str(label_ptr); label is what the
\* pointer addresses, up to and including the terminator.
igSmallButton_Str(label) ==
    [fn |-> "igSmallButton_Str", arg |-> FALSE, tok |-> 0, via |-> "widget",
     label |-> label]

\* A small_button that hands the native call the bytes of the &str itself,
\* which carry no terminator.
Ui_small_button_raw(tr, label) ==
    Append(tr, igSmallButton_Str(label))

\* Ui::small_button: scratch_txt(label), then the native call.
Ui_small_button(tr, label) ==
    Append(tr, igSmallButton_Str(scratch_txt(label)))

\* The native call sys::igBullet().
igBullet ==
    [fn |-> "igBullet", arg |-> FALSE, tok |-> 0, via |-> "widget"]

\* The native call sys::igBulletText(text_ptr); text is what the pointer
\* addresses, up to and including the terminator.
igBulletText(text) ==
    [fn |-> "igBulletText", arg |-> FALSE, tok |-> 0, via |-> "widget",
     label |-> text]

\* The native call sys::igArrowButton_Str(id_ptr, dir).
igArrowButton_Str(id, dir) ==
    [fn |-> "igArrowButton_Str", arg |-> FALSE, tok |-> 0, via |-> "widget",
     label |-> id, dir |-> dir]

\* The native call sys::igSetItemKeyOwner_Nil(key).
igSetItemKeyOwner_Nil(key) ==
    [fn |-> "igSetItemKeyOwner_Nil", arg |-> FALSE, tok |-> 0, via |-> "widget",
     key |-> key]

\* The native call sys::igSetItemKeyOwner_InputFlags(key, flags).
igSetItemKeyOwner_InputFlags(key, flags) ==
    [fn |-> "igSetItemKeyOwner_InputFlags", arg |-> FALSE, tok |-> 0,
     via |-> "widget", key |-> key, flags |-> flags]

\* Ui::bullet
Ui_bullet(tr) == Append(tr, igBullet)

\* Ui::bullet_text: scratch_txt(text), then the native call.
Ui_bullet_text(tr, text) == Append(tr, igBulletText(scratch_txt(text)))

\* Ui::arrow_button: scratch_txt(str_id), then the native call with dir as
\* i32; a Direction is modelled by its discriminant.
Ui_arrow_button(tr, str_id, dir) ==
    Append(tr, igArrowButton_Str(scratch_txt(str_id), dir))

\* Ui::set_item_key_owner: key as sys::ImGuiKey; a Key is modelled by its
\* discriminant.
Ui_set_item_key_owner(tr, key) == Append(tr, igSetItemKeyOwner_Nil(key))

\* Ui::set_item_key_owner_with_flags
Ui_set_item_key_owner_with_flags(tr, key, flags) ==
    Append(tr, igSetItemKeyOwner_InputFlags(key, flags))

\* The text and id a caller gives bullet_text and arrow_button: "ok".
WidgetTexts == { <<111, 107>> }
\* The Direction a caller gives arrow_button, as its discriminant:
\* Direction::Right.
DirVals == {1}
\* The Key a caller gives set_item_key_owner, as its discriminant: Key::Tab.
KeyVals == {512}
\* The ImGuiInputFlags a caller gives set_item_key_owner_with_flags.
InputFlagVals == {3}

\* The number of widget calls made so far.
WidgetOps == Cardinality({i \in DOMAIN calls : calls[i].via = "widget"})

\* ui.small_button(label); the native boolean it returns changes nothing.
SmallButton ==
    /\ pc = "run"
    /\ WidgetOps < MaxWidgets
    /\ Len(prog) < MaxWidgetPos
    /\ \E label \in WidgetTexts :
          /\ calls' = Ui_small_button(calls, label)
          /\ prog' = Append(prog, [op |-> "small_button", arg |-> FALSE,
                                   tok |-> 0, label |-> label])
    /\ UNCHANGED <<tokens, held, nextId, pc, itemFlagDepth>>
    /\ UNCHANGED plotVars

\* ui.bullet();
Bullet ==
    /\ pc = "run"
    /\ WidgetOps < MaxWidgets
    /\ Len(prog) < MaxWidgetPos
    /\ calls' = Ui_bullet(calls)
    /\ prog' = Append(prog, [op |-> "bullet", arg |-> FALSE, tok |-> 0])
    /\ UNCHANGED <<tokens, held, nextId, pc, itemFlagDepth>>
    /\ UNCHANGED plotVars

\* ui.bullet_text(text);
BulletText ==
    /\ pc = "run"
    /\ WidgetOps < MaxWidgets
    /\ Len(prog) < MaxWidgetPos
    /\ \E text \in WidgetTexts :
          /\ calls' = Ui_bullet_text(calls, text)
          /\ prog' = Append(prog, [op |-> "bullet_text", arg |-> FALSE,
                                   tok |-> 0, label |-> text])
    /\ UNCHANGED <<tokens, held, nextId, pc, itemFlagDepth>>
    /\ UNCHANGED plotVars

\* ui.arrow_button(id, dir); the native boolean it returns changes nothing.
ArrowButton ==
    /\ pc = "run"
    /\ WidgetOps < MaxWidgets
    /\ Len(prog) < MaxWidgetPos
    /\ \E id \in WidgetTexts : \E dir \in DirVals :
          /\ calls' = Ui_arrow_button(calls, id, dir)
          /\ prog' = Append(prog, [op |-> "arrow_button", arg |-> FALSE,
                                   tok |-> 0, label |-> id, dir |-> dir])
    /\ UNCHANGED <<tokens, held, nextId, pc, itemFlagDepth>>
    /\ UNCHANGED plotVars

\* ui.set_item_key_owner(key);
SetItemKeyOwner ==
    /\ pc = "run"
    /\ WidgetOps < MaxWidgets
    /\ Len(prog) < MaxWidgetPos
    /\ \E key \in KeyVals :
          /\ calls' = Ui_set_item_key_owner(calls, key)
          /\ prog' = Append(prog, [op |-> "set_item_key_owner", arg |-> FALSE,
                                   tok |-> 0, key |-> key])
    /\ UNCHANGED <<tokens, held, nextId, pc, itemFlagDepth>>
    /\ UNCHANGED plotVars

\* ui.set_item_key_owner_with_flags(key, flags);
SetItemKeyOwnerWithFlags ==
    /\ pc = "run"
    /\ WidgetOps < MaxWidgets
    /\ Len(prog) < MaxWidgetPos
    /\ \E key \in KeyVals : \E flags \in InputFlagVals :
          /\ calls' = Ui_set_item_key_owner_with_flags(calls, key, flags)
          /\ prog' = Append(prog, [op |-> "set_item_key_owner_with_flags",
                                   arg |-> FALSE, tok |-> 0, key |-> key,
                                   flags |-> flags])
    /\ UNCHANGED <<tokens, held, nextId, pc, itemFlagDepth>>
    /\ UNCHANGED plotVars

\* A frame of widgets opens at most MaxScopes disabled scopes.
NextWidgets ==
    \/ (nextId < MaxScopes /\ BeginDisabled)
    \/ (nextId < MaxScopes /\ BeginDisabledWithCond)
    \/ SmallButton
    \/ Bullet
    \/ BulletText
    \/ ArrowButton
    \/ SetItemKeyOwner
    \/ SetItemKeyOwnerWithFlags
    \/ End
    \/ ScopeExit
    \/ Panic
    \/ DropStep
    \/ Leave

SpecWidgets == InitUi /\ [][NextWidgets]_vars

\* ----------------------------------------------- claims on program order

\* The native call c is the one the Ui operation o makes.
CallOf(o, c) ==
    CASE o.op = "begin_disabled" ->
            c.fn = "igBeginDisabled" /\ c.arg = o.arg /\ c.tok = o.tok
      [] o.op = "small_button" ->
            c.fn = "igSmallButton_Str" /\ c.label = o.label \o <<0>>
      [] o.op = "bullet" -> c.fn = "igBullet"
      [] o.op = "bullet_text" ->
            c.fn = "igBulletText" /\ c.label = o.label \o <<0>>
      [] o.op = "arrow_button" ->
            c.fn = "igArrowButton_Str" /\ c.label = o.label \o <<0>>
               /\ c.dir = o.dir
      [] o.op = "set_item_key_owner" ->
            c.fn = "igSetItemKeyOwner_Nil" /\ c.key = o.key
      [] o.op = "set_item_key_owner_with_flags" ->
            c.fn = "igSetItemKeyOwner_InputFlags" /\ c.key = o.key
               /\ c.flags = o.flags
      [] o.op = "release" ->
            c.fn = "igEndDisabled" /\ c.tok = o.tok
      [] OTHER -> FALSE

\* begin_disabled, small_button("ok"), release of the token.
Scenario1 ==
    << [op |-> "begin_disabled", arg |-> TRUE, tok |-> 1],
       [op |-> "small_button", arg |-> FALSE, tok |-> 0, label |-> <<111, 107>>],
       [op |-> "release", arg |-> FALSE, tok |-> 1] >>

\* C12: widget calls and scope transitions reach the native engine in program
\* order: the i-th native call is the one the i-th operation makes; and for
\* begin_disabled, small_button("ok"), release the trace is BeginDisabled(true),
\* SmallButton on the bytes 'o','k',0, EndDisabled, with one BeginDisabled and
\* one EndDisabled.
C12_ProgramOrder ==
    /\ Len(calls) = Len(prog)
    /\ \A i \in DOMAIN prog : CallOf(prog[i], calls[i])
    /\ prog = Scenario1 =>
          /\ Len(calls) = 3
          /\ calls[1].fn = "igBeginDisabled" /\ calls[1].arg = TRUE
          /\ calls[2].fn = "igSmallButton_Str" /\ calls[2].label = <<111, 107, 0>>
          /\ calls[3].fn = "igEndDisabled"
          /\ Cardinality(CallsTo(calls, "igBeginDisabled")) = 1
          /\ Cardinality(CallsTo(calls, "igEndDisabled")) = 1

\* C12 witness: the scenario ran to the end of the frame, the token released
\* by scope exit.
C12_Witness ==
    /\ prog = Scenario1
    /\ pc = "done"
    /\ calls[3].via = "exit"

\* ============================================================ ButtonFlags
\* src/dear-imgui/src/widget/misc.rs, the bitflags! block and the invisible
\* buttons

RECURSIVE BitAnd(_, _)
\* a & b on non-negative integers.
BitAnd(a, b) ==
    IF a = 0 \/ b = 0 THEN 0
    ELSE (a % 2) * (b % 2) + 2 * BitAnd(a \div 2, b \div 2)

RECURSIVE BitOr(_, _)
\* a | b on non-negative integers.
BitOr(a, b) ==
    IF a = 0 THEN b
    ELSE IF b = 0 THEN a
    ELSE (IF a % 2 = 1 \/ b % 2 = 1 THEN 1 ELSE 0) + 2 * BitOr(a \div 2, b \div 2)

\* The values sys::ImGuiButtonFlags_MouseButtonLeft, _MouseButtonRight and
\* _MouseButtonMiddle may have: the source names them without giving their
\* values, so the model draws them: three distinct single bits.
NativeConstVals == { <<1, 2, 4>>, <<2, 4, 8>> }

\* The bit patterns a ButtonFlags value may hold (from_bits_retain keeps any).
FlagBitVals == 0..15

\* ButtonFlags is a transparent wrapper of an i32.
ButtonFlags(n) == [bits |-> n]

\* const NONE = 0
ButtonFlags_NONE == ButtonFlags(0)

\* const MOUSE_BUTTON_LEFT = sys::ImGuiButtonFlags_MouseButtonLeft as i32
ButtonFlags_MOUSE_BUTTON_LEFT == ButtonFlags(fl.left)

\* const MOUSE_BUTTON_RIGHT = sys::ImGuiButtonFlags_MouseButtonRight as i32
ButtonFlags_MOUSE_BUTTON_RIGHT == ButtonFlags(fl.right)

\* const MOUSE_BUTTON_MIDDLE = sys::ImGuiButtonFlags_MouseButtonMiddle as i32
ButtonFlags_MOUSE_BUTTON_MIDDLE == ButtonFlags(fl.middle)

\* ButtonFlags::bits
ButtonFlags_bits(f) == f.bits

\* ButtonFlags::all: the union of the named constants.
ButtonFlags_all ==
    ButtonFlags(BitOr(BitOr(BitOr(ButtonFlags_NONE.bits,
                                  ButtonFlags_MOUSE_BUTTON_LEFT.bits),
                            ButtonFlags_MOUSE_BUTTON_RIGHT.bits),
                      ButtonFlags_MOUSE_BUTTON_MIDDLE.bits))

\* a | b
ButtonFlags_union(a, b) == ButtonFlags(BitOr(a.bits, b.bits))

\* a & b
ButtonFlags_intersection(a, b) == ButtonFlags(BitAnd(a.bits, b.bits))

\* a.contains(b)
ButtonFlags_contains(a, b) == BitAnd(a.bits, b.bits) = b.bits

\* ButtonFlags::from_bits: None when a bit outside all() is set.
ButtonFlags_from_bits(n) ==
    IF BitAnd(n, ButtonFlags_all.bits) = n
    THEN [some |-> TRUE, v |-> ButtonFlags(n)]
    ELSE [some |-> FALSE, v |-> ButtonFlags_NONE]

\* The size a caller gives an invisible button, as [f32; 2].
ButtonSize == <<10, 20>>

\* The native call sys::igInvisibleButton_Str(id_ptr, size_vec, flags).
igInvisibleButton_Str(id, size, flags) ==
    [fn |-> "igInvisibleButton_Str", id |-> id, size |-> size, flags |-> flags]

\* An invisible_button_flags that passes no flags on.
Ui_invisible_button_flags_dropped(tr, str_id, size, flags) ==
    Append(tr, igInvisibleButton_Str(scratch_txt(str_id),
                                     [x |-> size[1], y |-> size[2]],
                                     ButtonFlags_bits(ButtonFlags_NONE)))

\* Ui::invisible_button_flags
Ui_invisible_button_flags(tr, str_id, size, flags) ==
    Append(tr, igInvisibleButton_Str(scratch_txt(str_id),
                                     [x |-> size[1], y |-> size[2]],
                                     ButtonFlags_bits(flags)))

\* Ui::invisible_button: invisible_button_flags with ButtonFlags::NONE.
Ui_invisible_button(tr, str_id, size) ==
    Ui_invisible_button_flags(tr, str_id, size, ButtonFlags_NONE)

\* let u = a | b;
FlagUnion ==
    /\ last' = Outcome("union", <<fl.a, fl.b>>,
                       ButtonFlags_union(fl.a, fl.b), calls, calls)
    /\ UNCHANGED <<calls, xin, yin, desc, simple>>
    /\ UNCHANGED uiVars
    /\ UNCHANGED auxVars

\* let c = a.contains(b);
FlagContains ==
    /\ last' = Outcome("contains", <<fl.a, fl.b>>,
                       ButtonFlags_contains(fl.a, fl.b), calls, calls)
    /\ UNCHANGED <<calls, xin, yin, desc, simple>>
    /\ UNCHANGED uiVars
    /\ UNCHANGED auxVars

\* ui.invisible_button(id, size)
InvisibleButton ==
    /\ Len(calls) < MaxNative
    /\ \E id \in Labels :
          /\ calls' = Ui_invisible_button(calls, id, ButtonSize)
          /\ last' = Outcome("invisible_button", ButtonFlags_NONE, "bool",
                             calls, calls')
    /\ UNCHANGED <<xin, yin, desc, simple>>
    /\ UNCHANGED uiVars
    /\ UNCHANGED auxVars

\* ui.invisible_button_flags(id, size, flags), with flags a | b or
\* MOUSE_BUTTON_LEFT | MOUSE_BUTTON_RIGHT.
InvisibleButtonFlags ==
    /\ Len(calls) < MaxNative
    /\ \E id \in Labels :
       \E flags \in { ButtonFlags_union(fl.a, fl.b),
                      ButtonFlags_union(ButtonFlags_MOUSE_BUTTON_LEFT,
                                        ButtonFlags_MOUSE_BUTTON_RIGHT) } :
          /\ calls' = Ui_invisible_button_flags(calls, id, ButtonSize, flags)
          /\ last' = Outcome("invisible_button_flags", flags, "bool",
                             calls, calls')
    /\ UNCHANGED <<xin, yin, desc, simple>>
    /\ UNCHANGED uiVars
    /\ UNCHANGED auxVars

\* let back = ButtonFlags::from_bits(n); for the integer n the native call
\* last received.
FlagFromBits ==
    /\ calls # <<>>
    /\ last' = Outcome("from_bits", calls[Len(calls)].flags,
                       ButtonFlags_from_bits(calls[Len(calls)].flags),
                       calls, calls)
    /\ UNCHANGED <<calls, xin, yin, desc, simple>>
    /\ UNCHANGED uiVars
    /\ UNCHANGED auxVars

InitFlags ==
    /\ calls = <<>>
    /\ UiStart
    /\ xin = <<>>
    /\ yin = <<>>
    /\ desc = NoDesc
    /\ simple = NoDesc
    /\ last = NoOp
    /\ img = NoDesc
    /\ \E k \in NativeConstVals : \E a \in FlagBitVals : \E b \in FlagBitVals :
          fl = [left |-> k[1], right |-> k[2], middle |-> k[3],
                a |-> ButtonFlags(a), b |-> ButtonFlags(b)]
    /\ build = NoDesc

NextFlags ==
    \/ FlagUnion
    \/ FlagContains
    \/ InvisibleButton
    \/ InvisibleButtonFlags
    \/ FlagFromBits

SpecFlags == InitFlags /\ [][NextFlags]_vars

\* ------------------------------------------------- claims on ButtonFlags

\* The positions of the bits set in n.
BitsOf(n) == {i \in 0..7 : (n \div (2 ^ i)) % 2 = 1}

\* C13: for all ButtonFlags a and b, bits(a | b) = bits(a) | bits(b),
\* bits(NONE) = 0, and a.contains(b) exactly when (a & b) = b; for
\* MOUSE_BUTTON_LEFT | MOUSE_BUTTON_RIGHT the integer invisible_button_flags
\* passes is the bitwise OR of the two native constants, and a ButtonFlags
\* reconstructed from that integer is the original value.
C13_FlagAlgebra ==
    /\ last.op = "union" =>
          BitsOf(ButtonFlags_bits(last.res)) =
              BitsOf(ButtonFlags_bits(last.d[1])) \cup BitsOf(ButtonFlags_bits(last.d[2]))
    /\ last.op = "invisible_button" =>
          last.issued = 1 /\ calls[Len(calls)].flags = 0
    /\ last.op = "contains" =>
          /\ last.res = (ButtonFlags_intersection(last.d[1], last.d[2]) = last.d[2])
          /\ last.res = (BitsOf(last.d[2].bits) \subseteq BitsOf(last.d[1].bits))
    /\ (last.op = "invisible_button_flags"
          /\ last.d = ButtonFlags_union(ButtonFlags_MOUSE_BUTTON_LEFT,
                                        ButtonFlags_MOUSE_BUTTON_RIGHT)) =>
          /\ last.issued = 1
          /\ BitsOf(calls[Len(calls)].flags) = BitsOf(fl.left) \cup BitsOf(fl.right)
    /\ (last.op = "from_bits"
          /\ BitsOf(last.d) = BitsOf(fl.left) \cup BitsOf(fl.right)) =>
          /\ last.res.some
          /\ last.res.v = ButtonFlags_union(ButtonFlags_MOUSE_BUTTON_LEFT,
                                            ButtonFlags_MOUSE_BUTTON_RIGHT)

\* C13 witness: invisible_button_flags was given MOUSE_BUTTON_LEFT |
\* MOUSE_BUTTON_RIGHT and a ButtonFlags was rebuilt from the integer it passed.
C13_Witness ==
    /\ last.op = "from_bits"
    /\ calls[Len(calls)].fn = "igInvisibleButton_Str"
    /\ BitsOf(last.d) = BitsOf(fl.left) \cup BitsOf(fl.right)
    /\ last.res.some

\* ================================================== implot3d build script
\* src/extensions/dear-implot3d-sys/build.rs

\* What the build script reads from the environment and the crate features:
\* DOCS_RS, feature build-from-source, IMPLOT3D_SYS_FORCE_BUILD,
\* IMPLOT3D_SYS_SKIP_CC, IMPLOT3D_SYS_LIB_DIR, IMPLOT3D_SYS_PREBUILT_URL,
\* feature prebuilt, and IMPLOT3D_SYS_USE_PREBUILT in {1, true, yes}.
BuildEnvs ==
    [docs_rs : BOOLEAN, build_from_source : BOOLEAN, force_build : BOOLEAN,
     skip_cc : BOOLEAN, lib_dir : BOOLEAN, prebuilt_url : BOOLEAN,
     prebuilt : BOOLEAN, use_prebuilt : BOOLEAN]

\* What the prebuilt lookups find: the library in IMPLOT3D_SYS_LIB_DIR, a
\* successful download from the URL and the library in it, a successful
\* download from the release (None when offline) and the library in it.
LookupOutcomes ==
    [lib_in_dir : BOOLEAN, url_ok : BOOLEAN, lib_in_url : BOOLEAN,
     release_ok : BOOLEAN, lib_in_release : BOOLEAN]

\* The two cargo directives that link the prebuilt static library.
LinkDirectives ==
    << "cargo:rustc-link-search=native", "cargo:rustc-link-lib=static=dear_implot3d" >>

\* A try_link_prebuilt that prints the link directives and still reports
\* that the library is missing.
try_link_prebuilt_unreported(exists) ==
    [ret |-> FALSE, out |-> IF exists THEN LinkDirectives ELSE <<>>]

\* try_link_prebuilt: false when the library file is missing, else the link
\* directives are printed and it returns true.
try_link_prebuilt(exists) ==
    IF ~exists
    THEN [ret |-> FALSE, out |-> <<>>]
    ELSE [ret |-> TRUE, out |-> LinkDirectives]

\* try_link_prebuilt_all: IMPLOT3D_SYS_LIB_DIR first, then the explicit URL,
\* else the release download when the feature or the variable allows it.
try_link_prebuilt_all(e, o) ==
    LET byDir == try_link_prebuilt(o.lib_in_dir)
        byUrl == try_link_prebuilt(o.lib_in_url)
        byRel == try_link_prebuilt(o.lib_in_release)
        dirOut == IF e.lib_dir
                  THEN <<"lookup:IMPLOT3D_SYS_LIB_DIR">> \o byDir.out
                       \o (IF byDir.ret THEN <<>>
                           ELSE <<"cargo:warning=library not found">>)
                  ELSE <<>>
    IN IF e.lib_dir /\ byDir.ret
       THEN [ret |-> TRUE, out |-> dirOut]
       ELSE IF e.prebuilt_url
       THEN IF o.url_ok
            THEN [ret |-> byUrl.ret,
                  out |-> dirOut \o <<"lookup:IMPLOT3D_SYS_PREBUILT_URL">> \o byUrl.out]
            ELSE [ret |-> FALSE,
                  out |-> dirOut \o <<"lookup:IMPLOT3D_SYS_PREBUILT_URL">>]
       ELSE IF e.prebuilt \/ e.use_prebuilt
       THEN IF o.release_ok
            THEN [ret |-> byRel.ret,
                  out |-> dirOut \o <<"cargo:warning=auto-prebuilt enabled",
                                      "lookup:release">> \o byRel.out]
            ELSE [ret |-> FALSE,
                  out |-> dirOut \o <<"cargo:warning=auto-prebuilt enabled",
                                      "lookup:release">>]
       ELSE [ret |-> FALSE, out |-> dirOut]

\* generate_bindings: bindgen's generate() and write_to_file() are unwrapped
\* with expect, so a failure panics.
generate_bindings(ok) ==
    IF ok THEN [at |-> "ok", out |-> <<"bindings.rs">>]
    ELSE [at |-> "panicked", out |-> <<>>]

\* docsrs_build: pregenerated bindings if usable, else a panic when a header
\* directory is missing, else generated bindings. Nothing is linked or built.
docsrs_build(preg, headers, bindgen_ok) ==
    LET head == <<"cargo:warning=DOCS_RS detected", "cargo:rustc-cfg=docsrs">>
    IN IF preg THEN [at |-> "done", out |-> head \o <<"bindings.rs">>]
       ELSE IF ~headers THEN [at |-> "panicked", out |-> head]
       ELSE IF generate_bindings(bindgen_ok).at = "panicked"
       THEN [at |-> "panicked", out |-> head]
       ELSE [at |-> "done",
             out |-> head \o generate_bindings(bindgen_ok).out
                     \o <<"cargo:IMGUI_INCLUDE_PATH", "cargo:CIMGUI_INCLUDE_PATH">>]

\* build_with_cc: configures cc::Build and compiles dear_implot3d; compile()
\* panics when the compiler fails.
build_with_cc(ok) ==
    [at |-> IF ok THEN "done" ELSE "panicked", out |-> <<"cc:compile dear_implot3d">>]

\* main: let force_build = cfg!(feature = "build-from-source")
\*                         || env::var("IMPLOT3D_SYS_FORCE_BUILD").is_ok();
main_force_build(e) == e.build_from_source \/ e.force_build

\* main: let linked_prebuilt = if force_build { false }
\*                             else { try_link_prebuilt_all(&cfg) };
main_linked_prebuilt(e, o) ==
    IF main_force_build(e)
    THEN [ret |-> FALSE, out |-> <<>>]
    ELSE try_link_prebuilt_all(e, o)

\* main, DOCS_RS set: docsrs_build and return.
MainDocsRs ==
    /\ build.at = "start"
    /\ build.env.docs_rs
    /\ \E preg \in BOOLEAN : \E headers \in BOOLEAN : \E ok \in BOOLEAN :
          LET r == docsrs_build(preg, headers, ok)
          IN build' = [build EXCEPT !.at = r.at, !.log = @ \o r.out]
    /\ UNCHANGED <<calls, xin, yin, desc, simple, last, img, fl>>
    /\ UNCHANGED uiVars

\* main, DOCS_RS unset: the two source directories must exist.
MainCheckSources ==
    /\ build.at = "start"
    /\ ~build.env.docs_rs
    /\ \E imgui_src \in BOOLEAN : \E cimplot3d_root \in BOOLEAN :
          build' = [build EXCEPT
                       !.at = IF ~imgui_src \/ ~cimplot3d_root
                              THEN "panicked" ELSE "bindings"]
    /\ UNCHANGED <<calls, xin, yin, desc, simple, last, img, fl>>
    /\ UNCHANGED uiVars

\* main: generate_bindings(&cfg, ...)
MainGenerateBindings ==
    /\ build.at = "bindings"
    /\ \E ok \in BOOLEAN :
          LET r == generate_bindings(ok)
          IN build' = [build EXCEPT
                          !.at = IF r.at = "panicked" THEN "panicked" ELSE "link",
                          !.log = @ \o r.out]
    /\ UNCHANGED <<calls, xin, yin, desc, simple, last, img, fl>>
    /\ UNCHANGED uiVars

\* main: force_build and linked_prebuilt.
MainLinkPrebuilt ==
    /\ build.at = "link"
    /\ \E o \in LookupOutcomes :
          LET r == main_linked_prebuilt(build.env, o)
          IN build' = [build EXCEPT !.at = "native",
                                    !.linked_prebuilt = r.ret,
                                    !.log = @ \o r.out]
    /\ UNCHANGED <<calls, xin, yin, desc, simple, last, img, fl>>
    /\ UNCHANGED uiVars

\* main: the closing if / else if.
MainNativeBuild ==
    /\ build.at = "native"
    /\ \E ok \in BOOLEAN : \E preg \in BOOLEAN : \E headers \in BOOLEAN :
          LET r == IF ~build.env.docs_rs /\ ~build.linked_prebuilt
                      /\ ~build.env.skip_cc
                   THEN build_with_cc(ok)
                   ELSE IF build.env.docs_rs
                   THEN docsrs_build(preg, headers, ok)
                   ELSE [at |-> "done", out |-> <<>>]
          IN build' = [build EXCEPT !.at = r.at, !.log = @ \o r.out]
    /\ UNCHANGED <<calls, xin, yin, desc, simple, last, img, fl>>
    /\ UNCHANGED uiVars

InitBuild ==
    /\ calls = <<>>
    /\ UiStart
    /\ xin = <<>>
    /\ yin = <<>>
    /\ desc = NoDesc
    /\ simple = NoDesc
    /\ last = NoOp
    /\ img = NoDesc
    /\ fl = NoDesc
    /\ \E e \in BuildEnvs :
          build = [at |-> "start", env |-> e, linked_prebuilt |-> FALSE, log |-> <<>>]

NextBuild ==
    \/ MainDocsRs
    \/ MainCheckSources
    \/ MainGenerateBindings
    \/ MainLinkPrebuilt
    \/ MainNativeBuild

SpecBuild == InitBuild /\ [][NextBuild]_vars

\* ------------------------------------------- claims on the build script

\* The prebuilt library was linked: its link directive was printed.
LinkedFromPrebuilt == \E i \in 1..Len(build.log) : build.log[i] = LinkDirectives[2]

\* The library was compiled from source: build_with_cc ran.
CompiledFromSource == \E i \in 1..Len(build.log) : build.log[i] = "cc:compile dear_implot3d"

\* A prebuilt lookup was attempted.
LookupAttempted ==
    \E i \in 1..Len(build.log) :
       build.log[i] \in {"lookup:IMPLOT3D_SYS_LIB_DIR",
                         "lookup:IMPLOT3D_SYS_PREBUILT_URL", "lookup:release"}

\* The run of main is over, by return or by panic.
RunOver == build.at \in {"done", "panicked"}

\* In every run: never both linked and compiled; neither under DOCS_RS; no
\* lookup under force-build.
BuildExclusions ==
    /\ ~(LinkedFromPrebuilt /\ CompiledFromSource)
    /\ build.env.docs_rs => ~LinkedFromPrebuilt /\ ~CompiledFromSource
    /\ (build.env.build_from_source \/ build.env.force_build) => ~LookupAttempted

\* build_with_cc ran exactly when DOCS_RS is unset, no prebuilt was linked and
\* IMPLOT3D_SYS_SKIP_CC is unset.
CcExactlyWhenNeeded ==
    CompiledFromSource <=>
        (~build.env.docs_rs /\ ~LinkedFromPrebuilt /\ ~build.env.skip_cc)

\* C15 as claimed: in any run of main the library is never both linked from a
\* prebuilt and compiled from source, neither happens under DOCS_RS, no
\* prebuilt lookup is attempted under force-build, and build_with_cc runs
\* exactly when DOCS_RS is unset, no prebuilt was linked and
\* IMPLOT3D_SYS_SKIP_CC is unset.
C15_BuildDecision ==
    /\ BuildExclusions
    /\ RunOver => CcExactlyWhenNeeded

\* C15, amended: the three exclusions hold in every run, and build_with_cc
\* runs exactly when DOCS_RS is unset, no prebuilt was linked and
\* IMPLOT3D_SYS_SKIP_CC is unset in every run that gets past the source
\* checks and the binding generation; a run that panics there builds nothing.
C15_BuildDecisionPastBindings ==
    /\ BuildExclusions
    /\ (RunOver /\ build.at = "panicked" /\ ~CompiledFromSource) =>
          ~LinkedFromPrebuilt
    /\ (RunOver /\ (build.at = "done" \/ CompiledFromSource)) => CcExactlyWhenNeeded

\* C15 witness: a run with IMPLOT3D_SYS_LIB_DIR set found no library there,
\* linked nothing and compiled from source.
C15_Witness ==
    /\ build # NoDesc
    /\ build.at = "done"
    /\ build.env.lib_dir
    /\ LookupAttempted
    /\ ~LinkedFromPrebuilt
    /\ CompiledFromSource

====
